---- MODULE Spec2Model ----
(***************************************************************************)
(* Model of model_checkpointing/checkpoint_handler.py: the six checkpoint  *)
(* operations (save/load of the full model state, of the optimizer state   *)
(* and of the distributed per-rank state) run by a fixed cohort of ranks.  *)
(* Every rank runs the same program: the same sequence of calls, each rank *)
(* at its own pace.  The FSDP collectives (the full state-dict gather, the *)
(* full optimizer-state gather and the optimizer scatter) complete only    *)
(* when every rank of the cohort has entered the same call's collective.   *)
(***************************************************************************)
EXTENDS Integers, Sequences, FiniteSets, TLC

\* ---------------------------------------------------------------- bounds
NumRanks == 2
MaxCalls == 2
MaxEpoch == 2
NumVals == 2

Ranks == 0 .. (NumRanks - 1)
Epochs == 1 .. MaxEpoch
Vals == 0 .. (NumVals - 1)
\* one parameter per rank: parameter k is the shard owned by rank k
Keys == Ranks

FULL_STATE_DICT == "FULL_STATE_DICT"
LOCAL_STATE_DICT == "LOCAL_STATE_DICT"
StateDictType == {FULL_STATE_DICT, LOCAL_STATE_DICT}

\* the value of a Python name that holds no object
None == "None"
\* a call that raised
Raised == "raise"
\* a dict with no keys
EmptyDict == [k \in {} |-> 0]

\* ------------------------------------------------- configuration (cfg.*)
checkpoint_folder == "ckpt"
model_save_name == "m"
optimizer_name == "adam"
dist_checkpoint_root_folder == "dist"
dist_checkpoint_folder == "d"
model_name == "t5"

\* ---------------------------------------------------- names and paths
Digit(d) == <<"0", "1", "2", "3", "4", "5", "6", "7", "8", "9">>[d + 1]

RECURSIVE Str(_)
\* Python's str() of a non-negative integer
Str(n) == IF n < 10 THEN Digit(n) ELSE Str(n \div 10) \o Digit(n % 10)

\* the save name built without the epoch
ModelSavePathNoEpoch(epoch) ==
    checkpoint_folder \o "/" \o model_save_name \o ".pt"
\* save_model_checkpoint: save_dir / (model_save_name + "-" + str(epoch) + ".pt")
ModelSavePath(epoch) ==
    checkpoint_folder \o "/" \o model_save_name \o "-" \o Str(epoch) \o ".pt"

\* save_optimizer_checkpoint: save_dir / (optimizer_name-model_save_name-epoch.pt)
OptSavePath(epoch) ==
    checkpoint_folder \o "/" \o optimizer_name \o "-" \o model_save_name
        \o "-" \o Str(epoch) \o ".pt"

\* the distributed checkpoint directory: the epoch is not part of the name
DistFolder(epoch) ==
    dist_checkpoint_root_folder \o "/" \o dist_checkpoint_folder \o "-" \o model_name

\* load_model_checkpoint: cwd / checkpoint_folder / checkpoint_model_filename
ModelLoadPath(c) == checkpoint_folder \o "/" \o c.checkpoint_model_filename

\* load_optimizer_checkpoint: cwd / checkpoint_folder / optimizer_checkpoint_file
OptLoadPath(c) == checkpoint_folder \o "/" \o c.optimizer_checkpoint_file

\* the configurations explored: the mode, the verbose flag, and the epoch
\* whose artifacts the two load file names point at
Configs ==
    { [checkpoint_type |-> t, verbose |-> v,
       checkpoint_model_filename |-> model_save_name \o "-" \o Str(e) \o ".pt",
       optimizer_checkpoint_file |->
           optimizer_name \o "-" \o model_save_name \o "-" \o Str(e) \o ".pt"]
      : t \in StateDictType, v \in BOOLEAN, e \in Epochs }

\* ------------------------------------------------------- serialisation
\* torch.save: the dict written as its (key, value) pairs in key order
RECURSIVE Serialize(_)
Serialize(d) ==
    IF DOMAIN d = {} THEN << >>
    ELSE LET k == CHOOSE x \in DOMAIN d : \A y \in DOMAIN d : x <= y
             rest == [y \in (DOMAIN d) \ {k} |-> d[y]]
         IN  << <<k, d[k]>> >> \o Serialize(rest)

\* torch.load: the dict rebuilt from the pairs
Deserialize(s) ==
    [k \in {s[i][1] : i \in DOMAIN s} |->
        (LET i == CHOOSE j \in DOMAIN s : s[j][1] = k IN s[i][2])]

File(data) == [kind |-> "file", data |-> data]
Dir(entries) == [kind |-> "dir", entries |-> entries]

\* ----------------------------------------------------------------- state
VARIABLES
    cfg,      \* the configuration object handed to every call
    calls,    \* the program run by every rank: the calls made so far
    idx,      \* idx[r]: how many calls of the program rank r has started
    pc,       \* pc[r]: where rank r stands inside its current call
    model,    \* model[r]: the parameters as rank r holds them
    optim,    \* optim[r]: rank r's shard of the optimizer state
    local,    \* local[r]: cpu_state / optim_state / full_osd / sharded_osd
    timer,    \* timer[r]: save_time_start / timer_start_load on rank r
    fs,       \* the shared file system: path -> file or directory
    ret,      \* ret[r]: how rank r's last call ended
    out,      \* out[r]: the messages rank r printed in its current call
    found,    \* found[r]: what rank r's existence check saw in this call
    wlog,     \* artifact writes: [rank, call, path]
    rlog,     \* artifact reads: [rank, call, path]
    coll,     \* collectives entered: [rank, call]
    saved     \* <<op, epoch, rank>> -> what the last such save wrote, where

vars ==
    <<cfg, calls, idx, pc, model, optim, local, timer, fs, ret, out,
      found, wlog, rlog, coll, saved>>

Ops ==
    {"save_model", "load_model", "save_optimizer", "load_optimizer",
     "save_distributed", "load_distributed"}
SaveOps == {"save_model", "save_optimizer", "save_distributed"}

\* the calls a caller can make: a save names its epoch, a load has none
CallKinds ==
    { [op |-> o, epoch |-> e] : o \in SaveOps, e \in Epochs }
        \cup { [op |-> o, epoch |-> 1] : o \in Ops \ SaveOps }

\* the call rank r is in (or has last finished)
Cur(r) == calls[idx[r]]

IsFile(p) == p \in DOMAIN fs /\ fs[p].kind = "file"
Exists(p) == p \in DOMAIN fs
Put(f, p, v) == [q \in (DOMAIN f) \cup {p} |-> IF q = p THEN v ELSE f[q]]
\* Path.mkdir(parents=True, exist_ok=True)
Mkdir(f, p) == IF p \in DOMAIN f THEN f ELSE Put(f, p, Dir(EmptyDict))

\* the parameter values after v rounds of training: one value per key
Params(v) == [k \in Keys |-> (v + k) % NumVals]

Init ==
    /\ cfg \in Configs
    /\ calls = << >>
    /\ idx = [r \in Ranks |-> 0]
    /\ pc = [r \in Ranks |-> "idle"]
    /\ model = [r \in Ranks |-> Params(0)]
    /\ optim = [r \in Ranks |-> 0]
    /\ local = [r \in Ranks |-> None]
    /\ timer = [r \in Ranks |-> "unset"]
    /\ fs = EmptyDict
    /\ ret = [r \in Ranks |-> "nocall"]
    /\ out = [r \in Ranks |-> {}]
    /\ found = [r \in Ranks |-> "nocheck"]
    /\ wlog = {}
    /\ rlog = {}
    /\ coll = {}
    /\ saved = EmptyDict

\* rank r makes the next call of the program: the call the ranks ahead of it
\* already made, or, when r is the first to get there, a new one
Begin(r, c) ==
    /\ pc[r] = "idle"
    /\ \/ idx[r] < Len(calls) /\ c = calls[idx[r] + 1] /\ calls' = calls
       \/ idx[r] = Len(calls) /\ Len(calls) < MaxCalls /\ calls' = Append(calls, c)
    /\ idx' = [idx EXCEPT ![r] = @ + 1]

\* rank r enters the collective `kind` of call i.  A collective completes
\* when every rank of the cohort is inside the collective of the same call;
\* until then the ranks inside it wait, each holding the argument arg it
\* passed.  res[s] is what the completed collective hands to rank s.
EnterCollective(r, i, kind, donepc, arg, res) ==
    IF \A s \in Ranks \ {r} : pc[s] = kind /\ idx[s] = i
    THEN /\ pc' = [s \in Ranks |-> donepc]
         /\ local' = [s \in Ranks |-> res[s]]
    ELSE /\ pc' = [pc EXCEPT ![r] = kind]
         /\ local' = [local EXCEPT ![r] = arg]

\* the training loop (or a re-initialisation) between two checkpoint calls
\* changes the live model and optimizer state of the rank
Train(r) ==
    /\ pc[r] = "idle"
    /\ idx[r] < MaxCalls
    /\ \E v \in Vals :
          /\ model' = [model EXCEPT ![r] = Params(v)]
          /\ optim' = [optim EXCEPT ![r] = v]
    /\ UNCHANGED <<cfg, calls, idx, pc, local, timer, fs, ret, out,
                   found, wlog, rlog, coll, saved>>

\* `if rank == 0:` with the guard lost: every rank takes the branch
IsRank0Always(r) == TRUE
\* `if rank == 0:` in the two full-state writers (lines 56 and 110)
IsRank0(r) == r = 0

\* ------------------------------------------------ save_model_checkpoint
\* FSDP.state_dict_type(FULL_STATE_DICT, rank0_only=True): model.state_dict()
\* hands the complete state to rank 0 and an empty dict to every other rank
FullStateDict(r) == IF r = 0 THEN [k \in Keys |-> model[k][k]] ELSE EmptyDict

\* the write taking the live state of the ranks anew instead of the
\* gathered copy
WrittenSnapshotLive(r) == [k \in Keys |-> model[k][k]]
\* torch.save(cpu_state, save_full_path) (line 65) and torch.save(
\* optim_state, opt_save_full_path) (line 123): what is written is the
\* object the gather returned to the rank
WrittenSnapshot(r) == local[r]

\* save_model_checkpoint with model.state_dict() moved under `if rank == 0`:
\* only rank 0 enters the gather, the other ranks go straight to the end
SaveModelCallRank0Gathers(r, c) ==
    /\ c.op = "save_model"
    /\ Begin(r, c)
    /\ out' = [out EXCEPT ![r] =
                  IF ~(cfg.checkpoint_type = FULL_STATE_DICT)
                  THEN {"unable to handle checkpoint type"} ELSE {}]
    /\ IF r = 0
       THEN /\ EnterCollective(r, idx[r] + 1, "gather", "gathered", None,
                               [s \in Ranks |-> FullStateDict(s)])
            /\ coll' = coll \cup {[rank |-> r, call |-> idx[r] + 1]}
            /\ ret' = [ret EXCEPT ![r] = "running"]
       ELSE /\ pc' = pc
            /\ local' = local
            /\ coll' = coll
            /\ ret' = [ret EXCEPT ![r] = None]
    /\ found' = [found EXCEPT ![r] = "nocheck"]
    /\ UNCHANGED <<cfg, model, optim, timer, fs, wlog, rlog, saved>>

\* lines 45-51: the mode check prints and goes on; the rank enters the gather
SaveModelCall(r, c) ==
    /\ c.op = "save_model"
    /\ Begin(r, c)
    /\ out' = [out EXCEPT ![r] =
                  IF ~(cfg.checkpoint_type = FULL_STATE_DICT)
                  THEN {"unable to handle checkpoint type"} ELSE {}]
    /\ EnterCollective(r, idx[r] + 1, "gather", "gathered", None,
                       [s \in Ranks |-> FullStateDict(s)])
    /\ coll' = coll \cup {[rank |-> r, call |-> idx[r] + 1]}
    /\ ret' = [ret EXCEPT ![r] = "running"]
    /\ found' = [found EXCEPT ![r] = "nocheck"]
    /\ UNCHANGED <<cfg, model, optim, timer, fs, wlog, rlog, saved>>

\* lines 53-68: rank 0 writes the gathered state; every rank returns
SaveModelWrite(r) ==
    /\ pc[r] = "gathered"
    /\ Cur(r).op = "save_model"
    /\ LET path == ModelSavePath(Cur(r).epoch) IN
       IF IsRank0(r)
       THEN /\ fs' = Put(Mkdir(fs, checkpoint_folder), path,
                         File(Serialize(WrittenSnapshot(r))))
            /\ wlog' = wlog \cup {[rank |-> r, call |-> idx[r], path |-> path]}
            /\ saved' = Put(saved, <<"save_model", Cur(r).epoch, r>>,
                            [path |-> path, snap |-> WrittenSnapshot(r)])
            /\ out' = [out EXCEPT ![r] = @ \cup {"saving model"} \cup
                         (IF cfg.verbose
                          THEN {"done w model state_dict", "model checkpoint saved"}
                          ELSE {})]
       ELSE /\ out' = [out EXCEPT ![r] = @ \cup
                         (IF cfg.verbose THEN {"done w model state_dict"} ELSE {})]
            /\ UNCHANGED <<fs, wlog, saved>>
    /\ pc' = [pc EXCEPT ![r] = "idle"]
    /\ local' = [local EXCEPT ![r] = None]
    /\ ret' = [ret EXCEPT ![r] = None]
    /\ UNCHANGED <<cfg, calls, idx, model, optim, timer, found, rlog, coll>>

\* ------------------------------------------------ load_model_checkpoint
\* a loader that raises where the artifact is missing
NotFoundRaises == Raised
\* the bare `return` of a loader that did not find its artifact (lines 87,
\* 138 and 170): the call ends with the value None
NotFoundReturn == None

\* the rank-0 guard of the full-state loaders lost: every rank reads
ReadsArtifactAlways(r) == TRUE
\* `if rank != 0: return` (lines 75-76) and `if rank == 0:` (line 142): the
\* rank that goes on to read the artifact in the two full-state loaders
ReadsArtifact(r) == r = 0

\* lines 75-87: a rank other than 0 returns; rank 0 looks for the file
LoadModelCall(r, c) ==
    /\ c.op = "load_model"
    /\ Begin(r, c)
    /\ IF ~ReadsArtifact(r)
       THEN /\ pc' = pc
            /\ ret' = [ret EXCEPT ![r] = None]
            /\ found' = [found EXCEPT ![r] = "nocheck"]
            /\ out' = [out EXCEPT ![r] = {}]
       ELSE IF ~IsFile(ModelLoadPath(cfg))
       THEN /\ pc' = pc
            /\ ret' = [ret EXCEPT ![r] = NotFoundReturn]
            /\ found' = [found EXCEPT ![r] = "absent"]
            /\ out' = [out EXCEPT ![r] = {"model checkpoint not present"}]
       ELSE /\ pc' = [pc EXCEPT ![r] = "mread"]
            /\ ret' = [ret EXCEPT ![r] = "running"]
            /\ found' = [found EXCEPT ![r] = "present"]
            /\ out' = [out EXCEPT ![r] = {}]
    /\ UNCHANGED <<cfg, model, optim, local, timer, fs, wlog, rlog, coll, saved>>

\* model.load_state_dict(d), strict: the key sets must agree
LoadStateDictOk(d) == DOMAIN d = Keys

\* the loaded state dict read and then not installed
LoadStateDictDropped(m, d) == m
\* model.load_state_dict(d) (line 91): the parameters m become those of d
LoadStateDict(m, d) == d

\* lines 89-94: torch.load, then model.load_state_dict
LoadModelRead(r) ==
    /\ pc[r] = "mread"
    /\ LET path == ModelLoadPath(cfg)
           model_checkpoint == Deserialize(fs[path].data)
       IN  /\ rlog' = rlog \cup {[rank |-> r, call |-> idx[r], path |-> path]}
           /\ IF LoadStateDictOk(model_checkpoint)
              THEN /\ model' = [model EXCEPT ![r] = LoadStateDict(@, model_checkpoint)]
                   /\ ret' = [ret EXCEPT ![r] = None]
                   /\ out' = [out EXCEPT ![r] = @ \cup
                                (IF cfg.verbose THEN {"model checkpoint loaded"}
                                 ELSE {})]
              ELSE /\ model' = model
                   /\ ret' = [ret EXCEPT ![r] = Raised]
                   /\ out' = out
    /\ pc' = [pc EXCEPT ![r] = "idle"]
    /\ UNCHANGED <<cfg, calls, idx, optim, local, timer, fs, found, wlog, coll,
                   saved>>

\* -------------------------------------------- save_optimizer_checkpoint
\* FSDP.full_optim_state_dict(model, optimizer): the complete optimizer
\* state on rank 0, an empty dict on every other rank
FullOptimStateDict(r) == IF r = 0 THEN [k \in Keys |-> optim[k]] ELSE EmptyDict

\* lines 100-105: every rank enters the optimizer-state gather
SaveOptCall(r, c) ==
    /\ c.op = "save_optimizer"
    /\ Begin(r, c)
    /\ out' = [out EXCEPT ![r] =
                  IF cfg.verbose THEN {"optim state call"} ELSE {}]
    /\ EnterCollective(r, idx[r] + 1, "gather", "gathered", None,
                       [s \in Ranks |-> FullOptimStateDict(s)])
    /\ coll' = coll \cup {[rank |-> r, call |-> idx[r] + 1]}
    /\ ret' = [ret EXCEPT ![r] = "running"]
    /\ found' = [found EXCEPT ![r] = "nocheck"]
    /\ UNCHANGED <<cfg, model, optim, timer, fs, wlog, rlog, saved>>

\* the progress message printed only when cfg.verbose is set
ProgressShownIfVerbose(c) == c.verbose
\* print("--> saving optimizer state...") (line 121) stands under no test
\* of cfg.verbose: "always print state so no one thinks it has hung"
ProgressShown(c) == TRUE

\* lines 107-121: after the gather rank 0 makes the folder and prints the
\* progress message ahead of the write; every other rank returns
SaveOptAnnounce(r) ==
    /\ pc[r] = "gathered"
    /\ Cur(r).op = "save_optimizer"
    /\ LET ready == IF cfg.verbose THEN {"optim state dict ready"} ELSE {}
       IN
       IF IsRank0(r)
       THEN /\ fs' = Mkdir(fs, checkpoint_folder)
            /\ out' = [out EXCEPT ![r] = @ \cup ready \cup
                         (IF ProgressShown(cfg) THEN {"saving optimizer state"}
                          ELSE {})]
            /\ pc' = [pc EXCEPT ![r] = "owrite"]
            /\ UNCHANGED <<local, ret>>
       ELSE /\ out' = [out EXCEPT ![r] = @ \cup ready]
            /\ pc' = [pc EXCEPT ![r] = "idle"]
            /\ local' = [local EXCEPT ![r] = None]
            /\ ret' = [ret EXCEPT ![r] = None]
            /\ fs' = fs
    /\ UNCHANGED <<cfg, calls, idx, model, optim, timer, found, wlog, rlog,
                   coll, saved>>

\* lines 123-125: torch.save of the gathered optimizer state, then the
\* message that it is on disk
SaveOptWrite(r) ==
    /\ pc[r] = "owrite"
    /\ LET path == OptSavePath(Cur(r).epoch) IN
       /\ fs' = Put(fs, path, File(Serialize(WrittenSnapshot(r))))
       /\ wlog' = wlog \cup {[rank |-> r, call |-> idx[r], path |-> path]}
       /\ saved' = Put(saved, <<"save_optimizer", Cur(r).epoch, r>>,
                       [path |-> path, snap |-> WrittenSnapshot(r)])
    /\ out' = [out EXCEPT ![r] = @ \cup {"saved to disk"}]
    /\ pc' = [pc EXCEPT ![r] = "idle"]
    /\ local' = [local EXCEPT ![r] = None]
    /\ ret' = [ret EXCEPT ![r] = None]
    /\ UNCHANGED <<cfg, calls, idx, model, optim, timer, found, rlog, coll>>

\* -------------------------------------------- load_optimizer_checkpoint
\* load_optimizer_checkpoint with the existence check made by rank 0 alone:
\* every other rank goes to the scatter whatever is on disk
LoadOptCallRank0Checks(r, c) ==
    /\ c.op = "load_optimizer"
    /\ Begin(r, c)
    /\ IF r = 0 /\ ~IsFile(OptLoadPath(cfg))
       THEN /\ pc' = pc
            /\ local' = local
            /\ coll' = coll
            /\ ret' = [ret EXCEPT ![r] = None]
            /\ found' = [found EXCEPT ![r] = "absent"]
            /\ out' = [out EXCEPT ![r] = {"optimizer checkpoint not present"}]
       ELSE /\ found' = [found EXCEPT ![r] = IF r = 0 THEN "present" ELSE "nocheck"]
            /\ ret' = [ret EXCEPT ![r] = "running"]
            /\ out' = [out EXCEPT ![r] = {}]
            /\ IF r = 0
               THEN /\ pc' = [pc EXCEPT ![r] = "oread"]
                    /\ local' = [local EXCEPT ![r] = None]
                    /\ coll' = coll
               ELSE /\ EnterCollective(r, idx[r] + 1, "scatter", "scattered", None,
                                       [s \in Ranks |-> [k \in {s} |-> local[0][k]]])
                    /\ coll' = coll \cup {[rank |-> r, call |-> idx[r] + 1]}
    /\ UNCHANGED <<cfg, model, optim, timer, fs, wlog, rlog, saved>>

\* lines 132-138: every rank looks for the file itself and returns when it
\* does not see it.  A rank other than 0 that sees it goes on to the scatter
\* with full_osd = None; rank 0 goes on to read the file.
LoadOptCall(r, c) ==
    /\ c.op = "load_optimizer"
    /\ Begin(r, c)
    /\ IF ~IsFile(OptLoadPath(cfg))
       THEN /\ pc' = pc
            /\ local' = local
            /\ coll' = coll
            /\ ret' = [ret EXCEPT ![r] = NotFoundReturn]
            /\ found' = [found EXCEPT ![r] = "absent"]
            /\ out' = [out EXCEPT ![r] = {"optimizer checkpoint not present"}]
       ELSE /\ found' = [found EXCEPT ![r] = "present"]
            /\ ret' = [ret EXCEPT ![r] = "running"]
            /\ out' = [out EXCEPT ![r] = {}]
            /\ IF ReadsArtifact(r)
               THEN /\ pc' = [pc EXCEPT ![r] = "oread"]
                    /\ local' = [local EXCEPT ![r] = None]
                    /\ coll' = coll
               ELSE /\ EnterCollective(r, idx[r] + 1, "scatter", "scattered", None,
                                       [s \in Ranks |-> [k \in {s} |-> local[0][k]]])
                    /\ coll' = coll \cup {[rank |-> r, call |-> idx[r] + 1]}
    /\ UNCHANGED <<cfg, model, optim, timer, fs, wlog, rlog, saved>>

\* lines 142-149: rank 0 reads the file and enters the scatter with it.
\* FSDP.scatter_full_optim_state_dict hands every rank its own portion.
LoadOptRead(r) ==
    /\ pc[r] = "oread"
    /\ LET path == OptLoadPath(cfg)
           full_osd == Deserialize(fs[path].data)
       IN  /\ rlog' = rlog \cup {[rank |-> r, call |-> idx[r], path |-> path]}
           /\ EnterCollective(r, idx[r], "scatter", "scattered", full_osd,
                              [s \in Ranks |-> [k \in {s} |-> full_osd[k]]])
    /\ coll' = coll \cup {[rank |-> r, call |-> idx[r]]}
    /\ out' = [out EXCEPT ![r] = @ \cup
                 (IF cfg.verbose THEN {"loaded full osd on rank 0"} ELSE {})]
    /\ UNCHANGED <<cfg, calls, idx, model, optim, timer, fs, ret, found, wlog,
                   saved>>

\* lines 151-156: the rank holds sharded_osd and returns; the statement
\* that would hand it to the optimizer is commented out
LoadOptReturn(r) ==
    /\ pc[r] = "scattered"
    /\ pc' = [pc EXCEPT ![r] = "idle"]
    /\ optim' = optim
    /\ local' = [local EXCEPT ![r] = None]
    /\ ret' = [ret EXCEPT ![r] = None]
    /\ out' = [out EXCEPT ![r] = @ \cup
                 (IF cfg.verbose THEN {"optimizer shard loaded"} ELSE {})]
    /\ UNCHANGED <<cfg, calls, idx, model, timer, fs, found, wlog, rlog, coll,
                   saved>>

\* ------------------------------------ save_distributed_model_checkpoint
\* FSDP.state_dict_type(LOCAL_STATE_DICT): model.state_dict() is the shard
\* rank r owns
LocalStateDict(r) == [k \in {r} |-> model[r][k]]

\* the mode test of the distributed writer and reader lost
IsLocalStateDictAny(c) == TRUE
\* `if cfg.checkpoint_type == StateDictType.LOCAL_STATE_DICT:` (lines 161
\* and 205)
IsLocalStateDict(c) == c.checkpoint_type = LOCAL_STATE_DICT

\* every rank writing under the one key of rank 0
EntryKeyShared(r) == 0
\* save_state_dict(state_dict, writer) (line 220) and load_state_dict(
\* state_dict, reader) (line 183): the directory entry of rank r is named
\* after the rank
EntryKey(r) == r

\* `if rank == 0:` around time.perf_counter() at the start of the two
\* distributed functions (lines 172 and 200)
StartsTimer(r) == r = 0
\* every rank taking the difference to the start time and printing it
ReportsTimeAll(r) == TRUE
\* `if rank == 0:` around the second time.perf_counter() and the print of
\* the difference to the start time (lines 187 and 222)
ReportsTime(r) == r = 0

\* lines 200-211: rank 0 starts its timer; outside LOCAL_STATE_DICT the call
\* falls through and returns; otherwise FileSystemWriter makes the directory
SaveDistCall(r, c) ==
    /\ c.op = "save_distributed"
    /\ Begin(r, c)
    /\ out' = [out EXCEPT ![r] =
                  IF StartsTimer(r) THEN {"Starting distributed checkpoint save"}
                  ELSE {}]
    /\ found' = [found EXCEPT ![r] = "nocheck"]
    /\ IF IsLocalStateDict(cfg)
       THEN /\ fs' = Mkdir(fs, DistFolder(c.epoch))
            /\ pc' = [pc EXCEPT ![r] = "dwrite"]
            /\ ret' = [ret EXCEPT ![r] = "running"]
            /\ timer' = [timer EXCEPT ![r] =
                            IF StartsTimer(r) THEN "set" ELSE "unset"]
       ELSE /\ fs' = fs
            /\ pc' = pc
            /\ ret' = [ret EXCEPT ![r] = None]
            /\ timer' = [timer EXCEPT ![r] = "unset"]
    /\ UNCHANGED <<cfg, model, optim, local, wlog, rlog, coll, saved>>

\* lines 213-227: save_state_dict writes the rank's shard into the
\* directory under the rank's own key; rank 0 reports the time
SaveDistWrite(r) ==
    /\ pc[r] = "dwrite"
    /\ LET dir == DistFolder(Cur(r).epoch)
           state_dict == LocalStateDict(r)
       IN  /\ fs' = [fs EXCEPT ![dir] =
                        Dir(Put(@.entries, EntryKey(r), Serialize(state_dict)))]
           /\ wlog' = wlog \cup {[rank |-> r, call |-> idx[r], path |-> dir]}
           /\ saved' = Put(saved, <<"save_distributed", Cur(r).epoch, r>>,
                           [path |-> dir, snap |-> state_dict])
    /\ out' = [out EXCEPT ![r] = @ \cup
                 (IF ReportsTime(r) /\ timer[r] = "set"
                  THEN {"total save time", "distributed checkpoint saved"}
                  ELSE {})]
    /\ timer' = [timer EXCEPT ![r] = "unset"]
    /\ pc' = [pc EXCEPT ![r] = "idle"]
    /\ ret' = [ret EXCEPT ![r] =
                  IF ReportsTime(r) /\ timer[r] = "unset" THEN Raised ELSE None]
    /\ UNCHANGED <<cfg, calls, idx, model, optim, local, found, rlog, coll>>

\* ------------------------------------ load_distributed_model_checkpoint
\* the absence message printed by every rank
LogsAbsenceAll(r) == TRUE
\* `if rank==0:` around the print of the missing directory (line 168)
LogsAbsence(r) == r = 0

\* lines 161-174: outside LOCAL_STATE_DICT the call does nothing; a missing
\* directory is reported by rank 0 and every rank returns
LoadDistCall(r, c) ==
    /\ c.op = "load_distributed"
    /\ Begin(r, c)
    /\ IF ~IsLocalStateDict(cfg)
       THEN /\ pc' = pc
            /\ ret' = [ret EXCEPT ![r] = None]
            /\ found' = [found EXCEPT ![r] = "nocheck"]
            /\ out' = [out EXCEPT ![r] = {}]
            /\ timer' = timer
       ELSE IF ~Exists(DistFolder(c.epoch))
       THEN /\ pc' = pc
            /\ ret' = [ret EXCEPT ![r] = NotFoundReturn]
            /\ found' = [found EXCEPT ![r] = "absent"]
            /\ out' = [out EXCEPT ![r] = {"loading distributed checkpoint"} \cup
                         (IF LogsAbsence(r) THEN {"No checkpoint directory found"}
                          ELSE {})]
            /\ timer' = timer
       ELSE /\ pc' = [pc EXCEPT ![r] = "dread"]
            /\ ret' = [ret EXCEPT ![r] = "running"]
            /\ found' = [found EXCEPT ![r] = "present"]
            /\ out' = [out EXCEPT ![r] = {"loading distributed checkpoint"}]
            /\ timer' = [timer EXCEPT ![r] =
                            IF StartsTimer(r) THEN "set" ELSE "unset"]
    /\ UNCHANGED <<cfg, model, optim, local, fs, wlog, rlog, coll, saved>>

\* lines 176-194: the rank reads its own entry of the directory into its
\* local state dict and installs it; a directory without the rank's entry
\* makes load_state_dict raise
LoadDistRead(r) ==
    /\ pc[r] = "dread"
    /\ LET dir == DistFolder(Cur(r).epoch) IN
       /\ rlog' = rlog \cup {[rank |-> r, call |-> idx[r], path |-> dir]}
       /\ IF EntryKey(r) \in DOMAIN fs[dir].entries
          THEN LET state_dict == Deserialize(fs[dir].entries[EntryKey(r)]) IN
               /\ model' = [model EXCEPT ![r] =
                               [k \in Keys |-> IF k \in DOMAIN state_dict
                                               THEN state_dict[k] ELSE @[k]]]
               /\ out' = [out EXCEPT ![r] = @ \cup {"local state loaded"} \cup
                            (IF ReportsTime(r) /\ timer[r] = "set"
                             THEN {"loading time for dist checkpoint"}
                             ELSE {})]
               /\ ret' = [ret EXCEPT ![r] =
                             IF ReportsTime(r) /\ timer[r] = "unset"
                             THEN Raised ELSE None]
          ELSE /\ model' = model
               /\ out' = out
               /\ ret' = [ret EXCEPT ![r] = Raised]
    /\ timer' = [timer EXCEPT ![r] = "unset"]
    /\ pc' = [pc EXCEPT ![r] = "idle"]
    /\ UNCHANGED <<cfg, calls, idx, optim, local, fs, found, wlog, coll, saved>>

Next ==
    \/ \E r \in Ranks : Train(r)
    \/ \E r \in Ranks, c \in CallKinds : SaveModelCall(r, c)
    \/ \E r \in Ranks : SaveModelWrite(r)
    \/ \E r \in Ranks, c \in CallKinds : LoadModelCall(r, c)
    \/ \E r \in Ranks : LoadModelRead(r)
    \/ \E r \in Ranks, c \in CallKinds : SaveOptCall(r, c)
    \/ \E r \in Ranks : SaveOptAnnounce(r)
    \/ \E r \in Ranks : SaveOptWrite(r)
    \/ \E r \in Ranks, c \in CallKinds : LoadOptCall(r, c)
    \/ \E r \in Ranks : LoadOptRead(r)
    \/ \E r \in Ranks : LoadOptReturn(r)
    \/ \E r \in Ranks, c \in CallKinds : SaveDistCall(r, c)
    \/ \E r \in Ranks : SaveDistWrite(r)
    \/ \E r \in Ranks, c \in CallKinds : LoadDistCall(r, c)
    \/ \E r \in Ranks : LoadDistRead(r)

Spec == Init /\ [][Next]_vars

\* a rank that is inside a call keeps running it: every step of a call that
\* stays enabled is eventually taken.  The caller is under no obligation
\* to make a further call, and training need not go on.
Fairness ==
    \A r \in Ranks :
        /\ WF_vars(SaveModelWrite(r))
        /\ WF_vars(LoadModelRead(r))
        /\ WF_vars(SaveOptAnnounce(r))
        /\ WF_vars(SaveOptWrite(r))
        /\ WF_vars(LoadOptRead(r))
        /\ WF_vars(LoadOptReturn(r))
        /\ WF_vars(SaveDistWrite(r))
        /\ WF_vars(LoadDistRead(r))

LiveSpec == Spec /\ Fairness

\* ------------------------------------------------------------ properties
CallIds == 1 .. MaxCalls
\* call i of the program has been made, and it is a call of op
IsCall(i, op) == i <= Len(calls) /\ calls[i].op = op
\* rank r has started call i
Started(r, i) == idx[r] >= i
\* rank r has returned from call i
Finished(r, i) == idx[r] > i \/ (idx[r] = i /\ pc[r] = "idle")
\* rank r entered the collective of call i
Entered(r, i) == [rank |-> r, call |-> i] \in coll
\* the artifact writes of call i
WritesOf(i) == {w \in wlog : w.call = i}
FullSaveOps == {"save_model", "save_optimizer"}

\* C1: a save_model_checkpoint call made with a configured mode other than
\* FULL_STATE_DICT aborts before the gather and before any write: no rank
\* enters the gather of that call and no rank writes a file in it.
C1_MismatchAbortsBeforeGather ==
    \A i \in CallIds :
        (IsCall(i, "save_model") /\ cfg.checkpoint_type # FULL_STATE_DICT)
            => /\ \A r \in Ranks : ~Entered(r, i)
               /\ WritesOf(i) = {}

\* C2: in load_optimizer_checkpoint the load-versus-skip decision is the
\* same on every rank: never has one rank entered the scatter of a call
\* from which another rank has returned without entering it.
C2_UniformLoadDecision ==
    \A i \in CallIds : IsCall(i, "load_optimizer") =>
        \A r, s \in Ranks :
            ~(Entered(r, i) /\ Finished(s, i) /\ ~Entered(s, i))

\* C3: in save_model_checkpoint and save_optimizer_checkpoint every rank
\* performs the gather and only rank 0 writes: a rank that has returned
\* from the call went through the gather, every write of the call is rank
\* 0's, and once all ranks have returned exactly one artifact was written.
C3_AllGatherRank0Writes ==
    \A i \in CallIds : (i <= Len(calls) /\ calls[i].op \in FullSaveOps) =>
        /\ \A r \in Ranks : Finished(r, i) => Entered(r, i)
        /\ \A w \in WritesOf(i) : w.rank = 0
        /\ (\A r \in Ranks : Finished(r, i)) => Cardinality(WritesOf(i)) = 1

\* C3 witness: a full-state save that every rank has finished, with its one
\* artifact on disk, in a cohort of more than one rank
C3_Witness ==
    \E i \in CallIds :
        /\ i <= Len(calls) /\ calls[i].op \in FullSaveOps
        /\ \A r \in Ranks : Finished(r, i) /\ Entered(r, i)
        /\ \E w \in WritesOf(i) : w.rank = 0 /\ IsFile(w.path)
        /\ Cardinality(Ranks) > 1

\* the snapshot the last save of kind op wrote to path
SavedAt(op, path) ==
    LET k == CHOOSE q \in DOMAIN saved : q[1] = op /\ saved[q].path = path
    IN  saved[k].snap
HasSavedAt(op, path) ==
    \E q \in DOMAIN saved : q[1] = op /\ saved[q].path = path

\* C4: when load_optimizer_checkpoint completes with the optimizer artifact
\* present, the live optimizer state of every rank is that rank's portion
\* of the saved full optimizer snapshot.
C4_LoadRestoresOptimizer ==
    [][\A r \in Ranks :
          (pc[r] = "scattered" /\ pc'[r] = "idle")
              => optim'[r] = SavedAt("save_optimizer", OptLoadPath(cfg))[r]]_vars

\* C5: distributed saves for two different epochs write to two distinct
\* locations, and the artifact of each epoch still holds what each rank
\* wrote for that epoch.
C5_DistEpochIsolation ==
    \A e1, e2 \in Epochs : \A r \in Ranks :
        LET k1 == <<"save_distributed", e1, r>>
            k2 == <<"save_distributed", e2, r>>
        IN  (e1 # e2 /\ k1 \in DOMAIN saved /\ k2 \in DOMAIN saved)
                => /\ saved[k1].path # saved[k2].path
                   /\ fs[saved[k1].path].entries[r] = Serialize(saved[k1].snap)

\* C6: full-state saves for two different epochs go to distinct artifact
\* names, and the artifact of every saved epoch still holds the snapshot
\* written for that epoch.
C6_FullEpochIsolation ==
    \A k \in DOMAIN saved : k[1] \in FullSaveOps =>
        /\ IsFile(saved[k].path)
        /\ fs[saved[k].path].data = Serialize(saved[k].snap)
        /\ \A q \in DOMAIN saved : q # k => saved[q].path # saved[k].path

\* C6 witness: the same full-state save done for two epochs with two
\* different snapshots, both artifacts on disk
C6_Witness ==
    \E op \in FullSaveOps : \E e1, e2 \in Epochs :
        LET k1 == <<op, e1, 0>>
            k2 == <<op, e2, 0>>
        IN  /\ e1 < e2
            /\ k1 \in DOMAIN saved /\ k2 \in DOMAIN saved
            /\ saved[k1].snap # saved[k2].snap
            /\ fs[saved[k1].path].data = Serialize(saved[k1].snap)
            /\ fs[saved[k2].path].data = Serialize(saved[k2].snap)

LoadOps == {"load_model", "load_optimizer", "load_distributed"}
\* rank r has returned from (or raised in) a load call, its latest call
LoadEnded(r) == idx[r] >= 1 /\ pc[r] = "idle" /\ Cur(r).op \in LoadOps

TargetMissing(op) ==
    CASE op = "load_model" ->
            LET p == checkpoint_folder \o "/" \o cfg.checkpoint_model_filename
            IN  p \notin DOMAIN fs \/ fs[p].kind # "file"
      [] op = "load_optimizer" ->
            LET p == checkpoint_folder \o "/" \o cfg.optimizer_checkpoint_file
            IN  p \notin DOMAIN fs \/ fs[p].kind # "file"
      [] op = "load_distributed" ->
            (dist_checkpoint_root_folder \o "/" \o dist_checkpoint_folder
                 \o "-" \o model_name) \notin DOMAIN fs
      [] OTHER -> FALSE

\* C8: a load call made while its target file or directory does not exist
\* is over in that one step on whichever rank makes it: the model and the
\* optimizer state of every rank are unchanged, nothing is read, no
\* collective is entered, and the rank is back with the same outcome, None.
C8_MissingArtifactNoOp ==
    [][\A r \in Ranks :
          (idx'[r] = idx[r] + 1 /\ TargetMissing(calls'[idx'[r]].op))
              => /\ model' = model
                 /\ optim' = optim
                 /\ rlog' = rlog
                 /\ coll' = coll
                 /\ fs' = fs
                 /\ pc'[r] = "idle"
                 /\ ret'[r] = None]_vars

\* C8 witness: every rank is back from the same load call, none found the
\* artifact, none read anything, and all hold the same outcome
C8_Witness ==
    \E i \in CallIds :
        /\ i <= Len(calls) /\ calls[i].op \in LoadOps
        /\ \A r \in Ranks : idx[r] = i /\ pc[r] = "idle" /\ ret[r] = None
        /\ \E r \in Ranks : found[r] = "absent"
        /\ \A r \in Ranks : found[r] # "present"
        /\ TargetMissing(calls[i].op)
        /\ ~\E w \in rlog : w.call = i

C10_FullStateRoundTrip ==
    [][(/\ pc[0] = "mread" /\ pc'[0] = "idle"
        /\ HasSavedAt("save_model", ModelLoadPath(cfg)))
          => /\ ret'[0] = None
             /\ DOMAIN model'[0] = DOMAIN SavedAt("save_model", ModelLoadPath(cfg))
             /\ model'[0] = SavedAt("save_model", ModelLoadPath(cfg))]_vars

\* C10 witness: rank 0 is back from a load of an artifact a save wrote and
\* holds the saved snapshot, one no training round on rank 0 produces
C10_Witness ==
    /\ LoadEnded(0) /\ Cur(0).op = "load_model"
    /\ found[0] = "present" /\ ret[0] = None
    /\ HasSavedAt("save_model", ModelLoadPath(cfg))
    /\ model[0] = SavedAt("save_model", ModelLoadPath(cfg))
    /\ \A v \in Vals : model[0] # Params(v)

\* C11: load_model_checkpoint called while the configured mode is the
\* distributed one (LOCAL_STATE_DICT) fails fast: the call ends in an
\* error, never in a silent return or a successful load.
C11_FullReaderRejectsDistributed ==
    \A r \in Ranks :
        (/\ LoadEnded(r) /\ Cur(r).op = "load_model"
         /\ cfg.checkpoint_type = LOCAL_STATE_DICT)
            => ret[r] = Raised

\* C12: in the full-state loaders only rank 0 reads the artifact.  Every
\* read of a load_model_checkpoint or load_optimizer_checkpoint call is
\* rank 0's; a load_model_checkpoint call leaves the model of a rank other
\* than 0 as it was; a rank other than 0 is in the scatter with None, and
\* rank 0 is in it with the snapshot it read from the optimizer file.
C12_OnlyRank0Reads ==
    /\ [](/\ \A w \in rlog :
                calls[w.call].op \in {"load_model", "load_optimizer"}
                    => w.rank = 0
          /\ \A r \in Ranks :
                (pc[r] = "scatter" /\ r # 0) => local[r] = None
          /\ pc[0] = "scatter" =>
                /\ local[0] = Deserialize(fs[OptLoadPath(cfg)].data)
                /\ \E w \in rlog : w.rank = 0 /\ w.call = idx[0])
    /\ [][\A r \in Ranks :
            (r # 0 /\ ( \/ (idx'[r] = idx[r] + 1 /\ calls'[idx'[r]].op = "load_model")
                        \/ (idx[r] >= 1 /\ Cur(r).op = "load_model"
                            /\ pc[r] # "idle")))
                => /\ model'[r] = model[r]
                   /\ rlog' = rlog
                   /\ pc'[r] = "idle"]_vars

\* C12 witness: a load_optimizer_checkpoint call whose scatter every rank
\* of a cohort of more than one went through, with the one read of the
\* call being rank 0's and every rank holding its portion of what was read
C12_Witness ==
    \E i \in CallIds :
        /\ IsCall(i, "load_optimizer")
        /\ Cardinality(Ranks) > 1
        /\ \A r \in Ranks : idx[r] = i /\ pc[r] = "scattered" /\ Entered(r, i)
        /\ {w.rank : w \in {x \in rlog : x.call = i}} = {0}
        /\ \A r \in Ranks :
              local[r] = [k \in {r} |-> Deserialize(fs[OptLoadPath(cfg)].data)[k]]

DistOps == {"save_distributed", "load_distributed"}

\* C13: the distributed writer and reader act only under LOCAL_STATE_DICT.
\* Under any other configured mode no write and no read belongs to a
\* save_distributed_model_checkpoint or load_distributed_model_checkpoint
\* call and the checkpoint directory is never made; such a call is over in
\* one step on the rank that makes it, with the file system and the model
\* of every rank as they were.
C13_DistributedOnlyInLocalMode ==
    /\ [](cfg.checkpoint_type # LOCAL_STATE_DICT =>
            /\ \A w \in wlog \cup rlog : calls[w.call].op \notin DistOps
            /\ \A e \in Epochs : ~Exists(DistFolder(e))
            /\ \A r \in Ranks :
                  (idx[r] >= 1 /\ Cur(r).op \in DistOps) => pc[r] = "idle")
    /\ [][\A r \in Ranks :
            (/\ cfg.checkpoint_type # LOCAL_STATE_DICT
             /\ idx'[r] = idx[r] + 1 /\ calls'[idx'[r]].op \in DistOps)
                => /\ model' = model
                   /\ fs' = fs
                   /\ wlog' = wlog /\ rlog' = rlog
                   /\ ret'[r] = None]_vars

\* C13 witness: under FULL_STATE_DICT every rank is back from a
\* save_distributed_model_checkpoint call and from a
\* load_distributed_model_checkpoint call, and nothing was written or read
C13_Witness ==
    /\ cfg.checkpoint_type = FULL_STATE_DICT
    /\ \E i, j \in CallIds :
          /\ IsCall(i, "save_distributed") /\ IsCall(j, "load_distributed")
          /\ \A r \in Ranks : Finished(r, i) /\ Finished(r, j)
    /\ wlog = {} /\ rlog = {}
    /\ \A r \in Ranks : ret[r] = None

\* C14: a load_distributed_model_checkpoint call made under
\* LOCAL_STATE_DICT while the checkpoint directory does not exist is over
\* in that step on every rank that makes it: the rank is back with None
\* without having got to the reader or to any read, the model and the file
\* system are as they were, and the rank has printed the absence message
\* exactly when it is rank 0.
C14_MissingDirSkipsRead ==
    [][\A r \in Ranks :
          (/\ idx'[r] = idx[r] + 1
           /\ calls'[idx'[r]].op = "load_distributed"
           /\ cfg.checkpoint_type = LOCAL_STATE_DICT
           /\ ~Exists(DistFolder(calls'[idx'[r]].epoch)))
              => /\ pc'[r] = "idle" /\ ret'[r] = None
                 /\ rlog' = rlog /\ model' = model /\ fs' = fs
                 /\ timer' = timer
                 /\ ("No checkpoint directory found" \in out'[r]) <=> (r = 0)]_vars

\* C14 witness: under LOCAL_STATE_DICT every rank of a cohort of more than
\* one is back from a load_distributed_model_checkpoint call that found no
\* directory; rank 0 printed the absence message, no read was made
C14_Witness ==
    \E i \in CallIds :
        /\ IsCall(i, "load_distributed")
        /\ cfg.checkpoint_type = LOCAL_STATE_DICT
        /\ Cardinality(Ranks) > 1
        /\ \A r \in Ranks :
              /\ idx[r] = i /\ pc[r] = "idle"
              /\ found[r] = "absent" /\ ret[r] = None
        /\ "No checkpoint directory found" \in out[0]
        /\ \A r \in Ranks \ {0} : "No checkpoint directory found" \notin out[r]
        /\ ~\E w \in rlog : w.call = i

\* the entries of the distributed checkpoint directory of epoch e
DistEntries(e) == fs[DistFolder(e)].entries

C18_ProgressAroundWrite ==
    /\ [](\A r \in Ranks :
            /\ pc[r] = "owrite" =>
                  /\ "saving optimizer state" \in out[r]
                  /\ "saved to disk" \notin out[r]
            /\ (r = 0 /\ idx[r] >= 1 /\ Cur(r).op = "save_optimizer"
                   /\ pc[r] = "idle")
                  => {"saving optimizer state", "saved to disk"} \subseteq out[r])
    /\ [][\A w \in wlog' \ wlog : calls[w.call].op = "save_optimizer" =>
            /\ "saving optimizer state" \in out[w.rank]
            /\ "saved to disk" \notin out[w.rank]
            /\ "saved to disk" \in out'[w.rank]]_vars

\* C18 witness: with cfg.verbose off, rank 0 is back from a
\* save_optimizer_checkpoint call that wrote its file, both messages
\* printed
C18_Witness ==
    /\ ~cfg.verbose
    /\ idx[0] >= 1 /\ Cur(0).op = "save_optimizer" /\ pc[0] = "idle"
    /\ \E w \in wlog : w.rank = 0 /\ w.call = idx[0] /\ IsFile(w.path)
    /\ {"saving optimizer state", "saved to disk"} \subseteq out[0]

\* the positions a rank may move to from position p of a call
PhaseAfter(p) ==
    CASE p = "idle" -> {"idle", "gather", "gathered", "mread", "oread",
                        "scatter", "scattered", "dwrite", "dread"}
      [] p = "gather" -> {"gather", "gathered"}
      [] p = "gathered" -> {"gathered", "owrite", "idle"}
      [] p = "owrite" -> {"owrite", "idle"}
      [] p = "oread" -> {"oread", "scatter", "scattered"}
      [] p = "scatter" -> {"scatter", "scattered"}
      [] OTHER -> {p, "idle"}
\* the positions in which a rank writes, and those in which it installs
\* what it read
WritePhases == {"gathered", "owrite", "dwrite"}
ApplyPhases == {"mread", "dread"}

\* C17: every rank goes through a call in the order idle, gather or read,
\* write or apply, idle.  A write of save_model_checkpoint or
\* save_optimizer_checkpoint is made by a rank whose gather has completed,
\* so after every rank entered the gather of that call, and the file holds
\* the object that gather handed to the rank: the state of the ranks at
\* the moment the gather completed, kept as it was until the write.  No
\* rank writes outside a write position, and inside a call the model of a
\* rank changes only where the rank installs what it read.
C17_PhaseOrder ==
    /\ [][\A r \in Ranks : pc'[r] \in PhaseAfter(pc[r])]_vars
    /\ [][\A w \in wlog' \ wlog :
            /\ pc[w.rank] \in WritePhases
            /\ calls[w.call].op \in FullSaveOps =>
                  /\ \A s \in Ranks : Entered(s, w.call)
                  /\ pc[w.rank] \in {"gathered", "owrite"}
                  /\ fs'[w.path].data = Serialize(local[w.rank])]_vars
    /\ [][(pc'[0] = "gathered" /\ pc[0] # "gathered") =>
            local'[0] = IF calls'[idx'[0]].op = "save_model"
                        THEN [k \in Keys |-> model[k][k]]
                        ELSE [k \in Keys |-> optim[k]]]_vars
    /\ [][(pc[0] \in {"gathered", "owrite"} /\ pc'[0] \in {"gathered", "owrite"})
            => local'[0] = local[0]]_vars
    /\ [][\A r \in Ranks : model'[r] # model[r] =>
            \/ pc[r] \in ApplyPhases
            \/ pc[r] = "idle" /\ idx'[r] = idx[r]]_vars

\* C17 witness: rank 0 has written the file of a save_model_checkpoint
\* call whose gather every rank of a cohort of more than one entered; the
\* file holds the gathered snapshot while training has gone on since, so
\* the live state of the ranks is no longer what was gathered
C17_Witness ==
    \E w \in wlog :
        /\ w.rank = 0 /\ calls[w.call].op = "save_model"
        /\ idx[0] = w.call /\ pc[0] = "idle"
        /\ \A s \in Ranks : Entered(s, w.call)
        /\ fs[w.path].data =
              Serialize(saved[<<"save_model", calls[w.call].epoch, 0>>].snap)
        /\ fs[w.path].data # Serialize([k \in Keys |-> model[k][k]])
        /\ Cardinality(Ranks) > 1

TimeReports == {"total save time", "loading time for dist checkpoint"}

\* C19: in the two distributed functions only rank 0 holds a start time
\* and only rank 0 prints a time; a step that prints a time is one of rank
\* 0 with its start time set; and no call ends in the error of reading a
\* start time that was never set: a save_distributed_model_checkpoint call
\* never raises, and a load_distributed_model_checkpoint call raises only
\* when the directory lacks the entry of the rank.
C19_TimerRank0Only ==
    /\ [](\A r \in Ranks :
            /\ timer[r] = "set" => r = 0
            /\ out[r] \cap TimeReports # {} => r = 0
            /\ (idx[r] >= 1 /\ Cur(r).op = "save_distributed")
                  => ret[r] # Raised)
    /\ [][\A r \in Ranks :
            /\ (out'[r] \cap TimeReports) \ out[r] # {}
                  => (r = 0 /\ timer[r] = "set")
            /\ (pc[r] = "dread" /\ pc'[r] = "idle" /\ ret'[r] = Raised)
                  => r \notin DOMAIN DistEntries(Cur(r).epoch)]_vars

\* C19 witness: under LOCAL_STATE_DICT every rank of a cohort of more than
\* one is back from a save_distributed_model_checkpoint call and from a
\* load_distributed_model_checkpoint call that read the directory; rank 0
\* printed the loading time, the other ranks printed none, nothing raised
C19_Witness ==
    /\ cfg.checkpoint_type = LOCAL_STATE_DICT
    /\ Cardinality(Ranks) > 1
    /\ \E i, j \in CallIds :
          /\ IsCall(i, "save_distributed") /\ IsCall(j, "load_distributed")
          /\ i < j
          /\ \A r \in Ranks : idx[r] = j /\ pc[r] = "idle" /\ ret[r] = None
          /\ \A r \in Ranks : \E w \in rlog : w.rank = r /\ w.call = j
    /\ "loading time for dist checkpoint" \in out[0]
    /\ \A r \in Ranks \ {0} : out[r] \cap TimeReports = {}

====
